---- MODULE Spec2Model ----
(***************************************************************************)
(* Model of the Semaphore classification client                            *)
(* (semaphore_classification_client.py) and of the batch helper            *)
(* (semaphore_helper.py): response parsing, Generic_UPWARD ranking, the    *)
(* per-file batch loop and the CSV/JSON emission.                          *)
(*                                                                         *)
(* Representation of Python values:                                        *)
(*   - a response text is a sequence of tags, the units the three regular  *)
(*     expressions of parse_classification_results match on;               *)
(*   - an absent attribute of a tag is the empty string (what re.findall   *)
(*     yields for a group that did not take part in the match);            *)
(*   - a dict is a record holding every field plus `keys`, the set of keys *)
(*     the dict really has; `shape` tells a JSON list from a JSON object;  *)
(*   - an insertion-ordered dict is a sequence of entries, first-inserted  *)
(*     first;                                                              *)
(*   - scores are finite numbers: "nan"/"inf" score strings are outside    *)
(*     the modelled inputs.                                                *)
(***************************************************************************)
EXTENDS Integers, Sequences, FiniteSets, TLC

\* ------------------------------------------------------------------ bounds
MaxTags == 3      \* longest response text, in tags
MaxTopics == 2    \* largest --max-topics / max_results argument
MaxFiles == 3     \* largest batch

\* ------------------------------------------------------------------- state
VARIABLES
    files,        \* main: files_to_process, each with what the service does
    args,         \* main: the parsed command line
    idx,          \* main: position of the for loop in files_to_process
    pc,           \* main: "loop", "raw", "done" or "exit"
    file_result,  \* main: the loop's file_result
    last_result,  \* main: the loop's result, what classify_file returned last
    calls,        \* per processed file, the calls classify_file made
    results,      \* main: results
    raw_results,  \* main: raw_results
    printed,      \* stdout: the per-file blocks of the human-readable mode
    json_out,     \* stdout: the documents printed by json.dumps(results)
    csv_file,     \* the rows written to args.csv
    raw_out,      \* stdout: the documents printed by json.dumps(raw_results)
    response,     \* a caller of the client: what classify_text/classify_file returned
    max_results,  \* a caller of the client: its max_results argument
    parses,       \* outcomes of its parse_classification_results calls, each
                  \* applied to what the call before returned
    tops,         \* outcomes of its get_top_classifications calls
    access_token, \* the client: self.access_token
    client_log    \* the authenticate/classify calls made on the client, with
                  \* the requests each one sent

vars == <<files, args, idx, pc, file_result, last_result, calls, results, raw_results,
          printed, json_out, csv_file, raw_out, response, max_results, parses, tops,
          access_token, client_log>>

mainVars == <<files, args, idx, pc, file_result, last_result, calls, results,
              raw_results, printed, json_out, csv_file, raw_out>>
clientVars == <<response, max_results, parses, tops, access_token, client_log>>

\* ------------------------------------------------------- Python None values
PyNone == "<None>"      \* None where the code otherwise holds a string
NoScore == -1           \* None in the 'score' field of a classification

\* ----------------------------------------------------------- response text
Tag(kind, name, value, id, score) ==
    [kind |-> kind, name |-> name, value |-> value, id |-> id, score |-> score]

GenericUpward == "Generic_UPWARD"
TopicValues == {"Finance", "Law"}

\* The tags a response text is built from.  A META tag is written
\* <META name=".." value=".." id=".." score=".."/>, the id and score
\* attributes being optional.
TagAlphabet ==
    {Tag("META", GenericUpward, v, "", "") : v \in TopicValues}
    \cup {Tag("META", GenericUpward, v, "id", s) :
              v \in TopicValues, s \in {"70", "85.0", "abc"}}
    \cup {Tag("META", GenericUpward, "Law", "", "85.0"),
          Tag("META", "IPSV", "Tax", "id", "70"),
          Tag("SYSTEM", "Template", "default", "", ""),
          Tag("URL", "", "http://doc", "", "")}

RECURSIVE SeqsUpTo(_, _)
SeqsUpTo(S, n) ==
    IF n = 0 THEN {<<>>}
    ELSE LET shorter == SeqsUpTo(S, n - 1)
         IN  shorter \cup {Append(s, x) : s \in {t \in shorter : Len(t) = n - 1}, x \in S}

\* float(score): the strings float() accepts, and their values
NumericStrings == {"70", "85.0", "85"}
FloatOf(s) == CASE s = "70" -> 70 [] s = "85.0" -> 85 [] s = "85" -> 85

\* ---------------------------------------------------------------- payloads
Dict(shape, keys, xml, url, cls, sys, err) ==
    [shape |-> shape, keys |-> keys, xml |-> xml, url |-> url,
     cls |-> cls, sys |-> sys, err |-> err]

\* {"raw_response": response.text}
RawResponse(xml) == Dict("dict", {"raw_response"}, xml, PyNone, <<>>, <<>>, PyNone)
\* a decoded JSON object with the given keys
JsonObject(keys, cls, err) == Dict("dict", keys, <<>>, PyNone, cls, <<>>, err)
\* a decoded JSON array
JsonList == Dict("list", {}, <<>>, PyNone, <<>>, <<>>, PyNone)

\* a call's outcome: exc = "" when it returned val, else the exception
Returned(v) == [exc |-> "", val |-> v]
Raised(e, v) == [exc |-> e, val |-> v]

\* ---------------------------------------------- parse_classification_results
RECURSIVE SelectTags(_, _)
SelectTags(xml, kind) ==
    IF xml = <<>> THEN <<>>
    ELSE IF Head(xml).kind = kind
         THEN <<Head(xml)>> \o SelectTags(Tail(xml), kind)
         ELSE SelectTags(Tail(xml), kind)

\* re.search(r'<URL>(.*?)</URL>', xml): the first URL element, or None
DocUrl(xml) ==
    LET urls == SelectTags(xml, "URL")
    IN  IF urls = <<>> THEN PyNone ELSE Head(urls).value

\* One tuple of re.findall(r'<META name="([^"]+)" value="([^"]+)"
\* (?: id="([^"]+)" score="([^"]+)")?', xml): the optional group takes part
\* only when id and score are both there, in this order; otherwise both
\* groups are ''.
MetaMatch(tag) ==
    IF tag.id # "" /\ tag.score # ""
    THEN [name |-> tag.name, value |-> tag.value, id |-> tag.id, score |-> tag.score]
    ELSE [name |-> tag.name, value |-> tag.value, id |-> "", score |-> ""]

RECURSIVE MetaFields(_)
MetaFields(xml) ==
    IF xml = <<>> THEN <<>>
    ELSE LET t == Head(xml)
         IN  IF t.kind = "META" /\ t.name # "" /\ t.value # ""
             THEN <<MetaMatch(t)>> \o MetaFields(Tail(xml))
             ELSE MetaFields(Tail(xml))

\* float(score) if score else None; float raises ValueError on other strings
ScoreRaises(score) == score # "" /\ score \notin NumericStrings
ScoreOf(score) == IF score = "" THEN NoScore ELSE FloatOf(score)

ClassificationItem(f) ==
    [value |-> f.value,
     id    |-> IF f.id # "" THEN f.id ELSE PyNone,
     score |-> ScoreOf(f.score)]

\* classifications[name].append(item), creating the list on first use
AddClassification(cls, name, item) ==
    IF \E i \in DOMAIN cls : cls[i].name = name
    THEN [i \in DOMAIN cls |->
             IF cls[i].name = name
             THEN [cls[i] EXCEPT !.items = Append(@, item)]
             ELSE cls[i]]
    ELSE Append(cls, [name |-> name, items |-> <<item>>])

RECURSIVE GroupFields(_, _)
GroupFields(fields, cls) ==
    IF fields = <<>> THEN cls
    ELSE GroupFields(Tail(fields),
                     AddClassification(cls, Head(fields).name,
                                       ClassificationItem(Head(fields))))

\* {name: value for name, value in system_fields}: a later value replaces
\* an earlier one of the same name, which keeps its place
SetEntry(d, name, value) ==
    IF \E i \in DOMAIN d : d[i].name = name
    THEN [i \in DOMAIN d |->
             IF d[i].name = name THEN [d[i] EXCEPT !.value = value] ELSE d[i]]
    ELSE Append(d, [name |-> name, value |-> value])

RECURSIVE SystemInfo(_, _)
SystemInfo(xml, d) ==
    IF xml = <<>> THEN d
    ELSE LET t == Head(xml)
         IN  IF t.kind = "SYSTEM" /\ t.name # "" /\ t.value # ""
             THEN SystemInfo(Tail(xml), SetEntry(d, t.name, t.value))
             ELSE SystemInfo(Tail(xml), d)

ParsedKeys == {"document_info", "classifications", "system_info", "raw_xml"}

\* A plausible slip: the extracted fields are merged into the argument
\* (result.update(...)), which keeps its 'raw_response' key and accumulates
\* classifications over calls.
ParseUpdatingArgument(result) ==
    IF "raw_response" \notin result.keys
    THEN Returned(result)
    ELSE LET fields == MetaFields(result.xml)
         IN  IF \E i \in DOMAIN fields : ScoreRaises(fields[i].score)
             THEN Raised("ValueError", result)
             ELSE Returned(Dict("dict", result.keys \cup ParsedKeys, result.xml,
                                DocUrl(result.xml),
                                GroupFields(fields, result.cls),
                                SystemInfo(result.xml, result.sys), PyNone))

\* SemaphoreClassificationClient.parse_classification_results
ParseClassificationResults(result) ==
    IF "raw_response" \notin result.keys
    THEN Returned(result)
    ELSE LET fields == MetaFields(result.xml)
         IN  IF \E i \in DOMAIN fields : ScoreRaises(fields[i].score)
             THEN Raised("ValueError", result)
             ELSE Returned(Dict("dict", ParsedKeys, result.xml,
                                DocUrl(result.xml),
                                GroupFields(fields, <<>>),
                                SystemInfo(result.xml, <<>>), PyNone))

\* ------------------------------------------------------ sorting and slicing
\* A plausible slip: sort ascending and reverse the list, which puts items of
\* equal score in last-seen-first order.
RECURSIVE InsertReversingTies(_, _)
InsertReversingTies(sorted, x) ==
    IF sorted = <<>> THEN <<x>>
    ELSE IF Head(sorted).score > x.score
         THEN <<Head(sorted)>> \o InsertReversingTies(Tail(sorted), x)
         ELSE <<x>> \o sorted

\* sorted(items, key=score, reverse=True): stable, so an item goes after
\* every item already placed whose score is not smaller
RECURSIVE InsertDesc(_, _)
InsertDesc(sorted, x) ==
    IF sorted = <<>> THEN <<x>>
    ELSE IF Head(sorted).score >= x.score
         THEN <<Head(sorted)>> \o InsertDesc(Tail(sorted), x)
         ELSE <<x>> \o sorted

RECURSIVE SortedDesc(_, _)
SortedDesc(items, acc) ==
    IF items = <<>> THEN acc
    ELSE SortedDesc(Tail(items), InsertDesc(acc, Head(items)))

Min(a, b) == IF a <= b THEN a ELSE b
Max(a, b) == IF a >= b THEN a ELSE b

\* A plausible slip: an inclusive upper bound, s[:n + 1].
SliceInclusive(s, n) == SubSeq(s, 1, IF n + 1 <= Len(s) THEN n + 1 ELSE Len(s))

\* s[:n]; a negative n counts from the end
Slice(s, n) ==
    LET k == IF n >= 0 THEN Min(n, Len(s)) ELSE Max(Len(s) + n, 0)
    IN  SubSeq(s, 1, k)

\* ------------------------------------------------- get_top_classifications
\* the scored items of one category, as all_classifications entries
RECURSIVE ScoredEntries(_, _)
ScoredEntries(category, items) ==
    IF items = <<>> THEN <<>>
    ELSE LET item == Head(items)
             rest == ScoredEntries(category, Tail(items))
         IN  IF item.score # NoScore
             THEN <<[category |-> category, value |-> item.value,
                     score |-> item.score, id |-> item.id]>> \o rest
             ELSE rest

\* for category, items in parsed['classifications'].items(): ...
RECURSIVE AllClassifications(_)
AllClassifications(cls) ==
    IF cls = <<>> THEN <<>>
    ELSE ScoredEntries(Head(cls).name, Head(cls).items) \o AllClassifications(Tail(cls))

\* SemaphoreClassificationClient.get_top_classifications
GetTopClassifications(result, max) ==
    LET parsed == ParseClassificationResults(result)
    IN  IF parsed.exc # "" THEN Raised(parsed.exc, <<>>)
        ELSE IF parsed.val.shape = "list" THEN Raised("TypeError", <<>>)
        ELSE IF "classifications" \notin parsed.val.keys THEN Raised("KeyError", <<>>)
        ELSE Returned(Slice(SortedDesc(AllClassifications(parsed.val.cls), <<>>), max))

\* ------------------------------------------------- helper: classify_file
\* str(e) of the exceptions the code formats into an outcome
StrOf(exc) ==
    CASE exc = "ValueError"     -> "could not convert string to float: 'abc'"
      [] exc = "AttributeError" -> "'list' object has no attribute 'get'"
      [] OTHER                  -> exc

\* f"Failed to process {file_path}: {str(e2)}" (the path is left out)
FailedToProcess(e2) ==
    CASE e2 = "415 Client Error" -> "Failed to process: 415 Client Error"
      [] e2 = "503 Server Error" -> "Failed to process: 503 Server Error"
      [] e2 = "No such file"     -> "Failed to process: No such file"
      [] OTHER                   -> "Failed to process: ?"

ErrorOutcome(msg) == JsonObject({"error"}, <<>>, msg)

\* The calls the text strategy makes: open() first, classify_text only
\* when the file could be read.
TextCalls(f) ==
    IF f.text.exc = "No such file" THEN <<"open">> ELSE <<"open", "classify_text">>

\* A plausible slip: the outer exception e is reported instead of e2.
ClassifyFileReportingFirst(f) ==
    IF f.upload.exc = ""
    THEN [val |-> f.upload.val, calls |-> <<"classify_file">>]
    ELSE IF f.text.exc = ""
         THEN [val |-> f.text.val, calls |-> <<"classify_file">> \o TextCalls(f)]
         ELSE [val |-> ErrorOutcome(FailedToProcess(StrOf(f.upload.exc))),
               calls |-> <<"classify_file">> \o TextCalls(f)]

\* helper classify_file: what it returns and the calls it made, in order
ClassifyFile(f) ==
    IF f.upload.exc = ""
    THEN [val |-> f.upload.val, calls |-> <<"classify_file">>]
    ELSE IF f.text.exc = ""
         THEN [val |-> f.text.val, calls |-> <<"classify_file">> \o TextCalls(f)]
         ELSE [val |-> ErrorOutcome(FailedToProcess(StrOf(f.text.exc))),
               calls |-> <<"classify_file">> \o TextCalls(f)]

\* ------------------------------------------------------ main: one file
\* A plausible slip: the dict is built once before the loop and reused, so
\* the classifications list is shared by all iterations.
ReusedFileResult(name) ==
    [file_result EXCEPT !.file = name, !.filename = name, !.error = PyNone]

\* file_result = {...}, lines 132-137
NewFileResult(name) ==
    [file |-> name, filename |-> name, classifications |-> <<>>, error |-> PyNone]

\* parsed.get("classifications", {}).get("Generic_UPWARD", [])
GenericUpwardItems(parsed) ==
    IF parsed.shape = "list" THEN Raised("AttributeError", <<>>)
    ELSE IF "classifications" \notin parsed.keys THEN Returned(<<>>)
    ELSE IF \E i \in DOMAIN parsed.cls : parsed.cls[i].name = GenericUpward
         THEN Returned(parsed.cls[CHOOSE i \in DOMAIN parsed.cls :
                                      parsed.cls[i].name = GenericUpward].items)
         ELSE Returned(<<>>)

HasValue(unique, value) == \E i \in DOMAIN unique : unique[i].value = value
ScoreAt(unique, value) ==
    unique[CHOOSE i \in DOMAIN unique : unique[i].value = value].score

\* A plausible slip: the comparison is dropped, so the last score wins.
ReplacesAlways(unique, value, score) == TRUE

\* value not in unique_classifications or score > unique_classifications[value]
Replaces(unique, value, score) ==
    ~HasValue(unique, value) \/ score > ScoreAt(unique, value)

\* unique_classifications[value] = score: a new key goes last, a known key
\* keeps its place
SetScore(unique, value, score) ==
    IF HasValue(unique, value)
    THEN [i \in DOMAIN unique |->
             IF unique[i].value = value THEN [unique[i] EXCEPT !.score = score]
             ELSE unique[i]]
    ELSE Append(unique, [value |-> value, score |-> score])

RECURSIVE UniqueClassifications(_, _)
UniqueClassifications(items, unique) ==
    IF items = <<>> THEN unique
    ELSE LET item == Head(items)
         IN  IF item.score # NoScore /\ Replaces(unique, item.value, item.score)
             THEN UniqueClassifications(Tail(items),
                                        SetScore(unique, item.value, item.score))
             ELSE UniqueClassifications(Tail(items), unique)

SortedClassifications(items) == SortedDesc(UniqueClassifications(items, <<>>), <<>>)

\* the classifications main stores for one item
StoredTopics(items, max_topics) ==
    LET kept == Slice(SortedClassifications(items), max_topics)
    IN  [i \in DOMAIN kept |-> [topic |-> kept[i].value, score |-> kept[i].score]]

\* The try block of the loop body on the helper's return value:
\* branch "ok" (lines 153-190), "error" (192-205) or "except" (207-220).
FileOutcome(fr, result, max_topics) ==
    IF "error" \notin result.keys
    THEN LET parsed == ParseClassificationResults(result)
         IN  IF parsed.exc # ""
             THEN [branch |-> "except", fr |-> [fr EXCEPT !.error = StrOf(parsed.exc)]]
             ELSE LET items == GenericUpwardItems(parsed.val)
                  IN  IF items.exc # ""
                      THEN [branch |-> "except",
                            fr |-> [fr EXCEPT !.error = StrOf(items.exc)]]
                      ELSE [branch |-> "ok",
                            fr |-> [fr EXCEPT !.classifications =
                                        @ \o StoredTopics(items.val, max_topics)]]
    ELSE [branch |-> "error", fr |-> [fr EXCEPT !.error = result.err]]

\* ------------------------------------------------------------ main: inputs
FileNames == <<"a.pdf", "b.txt", "c.docx", "d.xml", "e.rtf">>

Scored(v, s) == Tag("META", GenericUpward, v, "id", s)

\* response texts of the batch
BatchTexts ==
    { <<Scored("Finance", "70"), Scored("Finance", "85.0"), Scored("Law", "85.0")>>,
      <<Tag("SYSTEM", "Template", "default", "", ""), Scored("Law", "70")>>,
      <<Scored("Law", "85.0"), Scored("Finance", "abc")>> }

\* decoded JSON responses of the batch
BatchJson ==
    { JsonObject({}, <<>>, PyNone),
      JsonObject({"error"}, <<>>, "quota exceeded"),
      JsonObject({"error"}, <<>>, PyNone),
      JsonObject({"classifications"},
                 << [name |-> GenericUpward,
                     items |-> << [value |-> "Law", id |-> "id", score |-> 70],
                                  [value |-> "Tax", id |-> PyNone, score |-> NoScore],
                                  [value |-> "Audit", id |-> "id", score |-> 85] >>] >>,
                 PyNone),
      JsonList }

BatchPayloads == {RawResponse(x) : x \in BatchTexts} \cup BatchJson
FallbackPayloads == { RawResponse(<<Scored("Finance", "70")>>) }

NotCalled == Raised("not called", JsonList)

\* What the service does for one file: the upload answers, or it raises
\* and the text submission answers or raises.
FileKinds ==
    {[upload |-> Returned(p), text |-> NotCalled] : p \in BatchPayloads}
    \cup {[upload |-> Raised("415 Client Error", JsonList), text |-> Returned(p)] :
              p \in FallbackPayloads}
    \cup {[upload |-> Raised("415 Client Error", JsonList), text |-> Raised(e, JsonList)] :
              e \in {"503 Server Error", "No such file"}}

NamedFiles(kinds) ==
    [i \in DOMAIN kinds |->
        [name |-> FileNames[i], upload |-> kinds[i].upload, text |-> kinds[i].text]]

Batches == UNION {{NamedFiles(k) : k \in [1..n -> FileKinds]} : n \in 0..MaxFiles}

\* The command lines of the batch; --include-scoring changes the
\* human-readable mode only and is varied there.
ArgSets ==
    {a \in [json : BOOLEAN, csv : BOOLEAN, raw_json : BOOLEAN,
            include_scoring : BOOLEAN, max_topics : {1, MaxTopics}] :
        a.include_scoring => (~a.json /\ ~a.csv /\ ~a.raw_json)}

InitMain ==
    /\ idx = 1
    /\ pc = "loop"
    /\ file_result = [file |-> "", filename |-> "", classifications |-> <<>>,
                      error |-> PyNone]
    /\ last_result = JsonObject({}, <<>>, PyNone)
    /\ calls = <<>>
    /\ results = <<>>
    /\ raw_results = <<>>
    /\ printed = <<>>
    /\ json_out = <<>>
    /\ csv_file = <<>>
    /\ raw_out = <<>>

\* no caller of the client besides main
InitNoCaller ==
    /\ response = JsonObject({}, <<>>, PyNone)
    /\ max_results = 10
    /\ parses = <<>>
    /\ tops = <<>>
    /\ access_token = PyNone
    /\ client_log = <<>>

Init ==
    /\ files \in Batches
    /\ args \in ArgSets
    /\ InitMain
    /\ InitNoCaller

\* ------------------------------------------------------- main: the loop
RawEntry(name, raw) == [file |-> name, filename |-> name, raw_result |-> raw]

\* raw_results.append(...) of lines 145-150, 194-199 and 209-214
RawAppends(name, result, outcome) ==
    <<RawEntry(name, result)>>
    \o (IF outcome.branch = "ok" THEN <<>>
        ELSE <<RawEntry(name, ErrorOutcome(outcome.fr.error))>>)

\* the block the human-readable mode prints for one file
PrintedBlock(outcome, include_scoring) ==
    [file   |-> outcome.fr.file,
     lines  |-> [i \in DOMAIN outcome.fr.classifications |->
                    [topic |-> outcome.fr.classifications[i].topic,
                     score |-> IF include_scoring
                               THEN outcome.fr.classifications[i].score
                               ELSE NoScore]],
     label  |-> CASE outcome.branch = "ok"    -> ""
                  [] outcome.branch = "error" -> "Error: "
                  [] OTHER                    -> "Failed: ",
     error  |-> outcome.fr.error]

\* A plausible slip: the except clause records the error and forgets to
\* append the outcome.
AppendUnlessRaised(rs, outcome) ==
    IF outcome.branch = "except" THEN rs ELSE Append(rs, outcome.fr)

\* results.append(file_result), lines 181, 201 and 216
AppendOutcome(rs, outcome) == Append(rs, outcome.fr)

\* one iteration of `for file_path in files_to_process`
ProcessFile ==
    /\ pc = "loop"
    /\ idx <= Len(files)
    /\ LET f == files[idx]
           fetched == ClassifyFile(f)
           outcome == FileOutcome(NewFileResult(f.name), fetched.val, args.max_topics)
       IN  /\ last_result' = fetched.val
           /\ file_result' = outcome.fr
           /\ calls' = Append(calls, fetched.calls)
           /\ raw_results' = IF args.raw_json
                             THEN raw_results \o RawAppends(f.name, fetched.val, outcome)
                             ELSE raw_results
           /\ IF args.json \/ args.csv
              THEN results' = AppendOutcome(results, outcome) /\ UNCHANGED printed
              ELSE printed' = Append(printed, PrintedBlock(outcome, args.include_scoring))
                   /\ UNCHANGED results
    /\ idx' = idx + 1
    /\ UNCHANGED <<files, args, pc, json_out, csv_file, raw_out>>
    /\ UNCHANGED clientVars

\* ------------------------------------------------------ main: the output
\* `if result["error"]`: None and '' are both false
Truthy(err) == err # PyNone /\ err # ""

RECURSIVE MaxTopicCount(_)
MaxTopicCount(rs) ==
    IF rs = <<>> THEN 0
    ELSE LET rest == MaxTopicCount(Tail(rs))
             r == Head(rs)
         IN  IF ~Truthy(r.error) /\ Len(r.classifications) > rest
             THEN Len(r.classifications)
             ELSE rest

\* [cell] * n, empty when n <= 0
Repeat(cell, n) == [i \in 1..n |-> cell]

CsvHeader(max_topics) == <<"assetId", "error">> \o Repeat("dc:subject", max_topics)

CsvTopics(r) == [i \in DOMAIN r.classifications |-> r.classifications[i].topic]

\* A plausible slip: the topics are written without the padding.
CsvRowUnpadded(r, max_topics) ==
    <<r.filename, IF Truthy(r.error) THEN r.error ELSE "">>
    \o (IF ~Truthy(r.error) THEN CsvTopics(r) ELSE Repeat("", max_topics))

CsvRow(r, max_topics) ==
    <<r.filename, IF Truthy(r.error) THEN r.error ELSE "">>
    \o (IF ~Truthy(r.error)
        THEN CsvTopics(r) \o Repeat("", max_topics - Len(r.classifications))
        ELSE Repeat("", max_topics))

CsvRows(rs) ==
    LET max_topics == MaxTopicCount(rs)
    IN  <<CsvHeader(max_topics)>> \o [i \in DOMAIN rs |-> CsvRow(rs[i], max_topics)]

\* lines 223-258 when the CSV file can be written
OutputResults ==
    /\ pc = "loop"
    /\ idx > Len(files)
    /\ json_out' = IF args.json THEN Append(json_out, results) ELSE json_out
    /\ csv_file' = IF ~args.json /\ args.csv THEN CsvRows(results) ELSE csv_file
    /\ pc' = "raw"
    /\ UNCHANGED <<files, args, idx, file_result, last_result, calls, results, raw_results,
                   printed, raw_out>>
    /\ UNCHANGED clientVars

\* lines 256-258: writing args.csv raised, sys.exit(1)
CsvWriteFails ==
    /\ pc = "loop"
    /\ idx > Len(files)
    /\ ~args.json /\ args.csv
    /\ pc' = "exit"
    /\ UNCHANGED <<files, args, idx, file_result, last_result, calls, results, raw_results,
                   printed, json_out, csv_file, raw_out>>
    /\ UNCHANGED clientVars

\* lines 260-261
OutputRaw ==
    /\ pc = "raw"
    /\ raw_out' = IF args.raw_json THEN Append(raw_out, raw_results) ELSE raw_out
    /\ pc' = "done"
    /\ UNCHANGED <<files, args, idx, file_result, last_result, calls, results, raw_results,
                   printed, json_out, csv_file>>
    /\ UNCHANGED clientVars

Next == ProcessFile \/ OutputResults \/ CsvWriteFails \/ OutputRaw

Spec == Init /\ [][Next]_vars

\* ---------------------------------------------- one file, every response text
\* A batch of one file whose upload answers with a response text, for every
\* text of at most MaxTags tags.
InitRank ==
    /\ files \in {NamedFiles(<<[upload |-> Returned(RawResponse(xml)), text |-> NotCalled]>>) :
                      xml \in SeqsUpTo(TagAlphabet, MaxTags)}
    /\ args \in [json : {TRUE}, csv : {FALSE}, raw_json : {FALSE},
                 include_scoring : {FALSE}, max_topics : -1..MaxTopics]
    /\ InitMain
    /\ InitNoCaller

NextRank == ProcessFile \/ OutputResults \/ OutputRaw

SpecRank == InitRank /\ [][NextRank]_vars

\* ================================================================= claims
\* What the claims speak of, for the file at position i of the batch.
Fetched(i) == ClassifyFile(files[i]).val
Processed(i) == i < idx

\* the Generic_UPWARD records extracted for file i, in extraction order
Records(i) ==
    LET parsed == ParseClassificationResults(Fetched(i))
    IN  IF parsed.exc # "" THEN <<>>
        ELSE LET items == GenericUpwardItems(parsed.val)
             IN  IF items.exc # "" THEN <<>> ELSE items.val

ScoredAt(recs) == {k \in DOMAIN recs : recs[k].score # NoScore}
ScoredValues(recs) == {recs[k].value : k \in ScoredAt(recs)}

\* the outcome of file i, where the mode in use puts it
Topics(i) == IF args.json \/ args.csv THEN results[i].classifications ELSE printed[i].lines
ErrorOf(i) == IF args.json \/ args.csv THEN results[i].error ELSE printed[i].error

NonIncreasing(topics) ==
    \A a, b \in DOMAIN topics : a < b => topics[a].score >= topics[b].score

\* C1: with max_topics >= 0, every ranked topic of an item appears once, is
\* the value of a record with a non-null score and carries the maximum score
\* of the scored records of that value; when max_topics is at least the
\* number of distinct scored values, the topics are exactly those values.
C1_DedupMax ==
    \A i \in DOMAIN files :
        (Processed(i) /\ args.max_topics >= 0 /\ ErrorOf(i) = PyNone) =>
            LET recs == Records(i)
                topics == Topics(i)
            IN  /\ \A a, b \in DOMAIN topics : a # b => topics[a].topic # topics[b].topic
                /\ \A a \in DOMAIN topics :
                      /\ \E k \in ScoredAt(recs) :
                            recs[k].value = topics[a].topic /\ recs[k].score = topics[a].score
                      /\ \A k \in ScoredAt(recs) :
                            recs[k].value = topics[a].topic => recs[k].score <= topics[a].score
                /\ args.max_topics >= Cardinality(ScoredValues(recs)) =>
                      {topics[a].topic : a \in DOMAIN topics} = ScoredValues(recs)

\* a value scored twice, the higher score first, a null-scored record, and
\* a limit that keeps every value
C1_Witness ==
    /\ Processed(1)
    /\ args.max_topics = 2
    /\ LET recs == Records(1)
       IN  /\ Len(recs) = 3
           /\ recs[1].value = recs[2].value
           /\ recs[1].score > recs[2].score /\ recs[2].score # NoScore
           /\ recs[3].score = NoScore
    /\ Len(Topics(1)) = 1

FirstRecord(recs, value) ==
    CHOOSE k \in DOMAIN recs :
        recs[k].value = value /\ \A j \in DOMAIN recs : recs[j].value = value => k <= j

FirstScoredRecord(recs, value) ==
    CHOOSE k \in ScoredAt(recs) :
        recs[k].value = value /\ \A j \in ScoredAt(recs) : recs[j].value = value => k <= j

FinanceFinanceLaw ==
    <<Scored("Finance", "70"), Scored("Finance", "85.0"), Scored("Law", "85.0")>>

\* C2 as stated: the ranking is by score descending, and topics of equal
\* score are in the order in which their values first occurred in the
\* extracted record sequence.
C2_TiesByFirstRecord ==
    \A i \in DOMAIN files :
        (Processed(i) /\ args.max_topics >= 0 /\ ErrorOf(i) = PyNone) =>
            LET recs == Records(i)
                topics == Topics(i)
            IN  /\ NonIncreasing(topics)
                /\ \A a, b \in DOMAIN topics :
                      (a < b /\ topics[a].score = topics[b].score) =>
                          FirstRecord(recs, topics[a].topic) < FirstRecord(recs, topics[b].topic)

\* C2 amended: the ranking is by score descending, and topics of equal score
\* are in the order in which their values first occurred among the records
\* with a non-null score; [Finance(70), Finance(85), Law(85)] yields
\* [Finance 85, Law 85].
C2_TiesByFirstScoredRecord ==
    \A i \in DOMAIN files :
        (Processed(i) /\ args.max_topics >= 0 /\ ErrorOf(i) = PyNone) =>
            LET recs == Records(i)
                topics == Topics(i)
            IN  /\ NonIncreasing(topics)
                /\ \A a, b \in DOMAIN topics :
                      (a < b /\ topics[a].score = topics[b].score) =>
                          FirstScoredRecord(recs, topics[a].topic)
                              < FirstScoredRecord(recs, topics[b].topic)
                /\ (Fetched(i).xml = FinanceFinanceLaw /\ args.max_topics >= 2) =>
                      topics = << [topic |-> "Finance", score |-> 85],
                                  [topic |-> "Law", score |-> 85] >>

\* two values tie at their maximum, and the one ranked first was seen first
\* only among the scored records: its tied rival occurs earlier, unscored
C2_Witness ==
    /\ Processed(1)
    /\ LET recs == Records(1)
           topics == Topics(1)
       IN  /\ Len(topics) = 2
           /\ topics[1].score = topics[2].score
           /\ FirstRecord(recs, topics[2].topic) < FirstRecord(recs, topics[1].topic)

\* C3: with max_topics >= 0 an item has min(max_topics, number of distinct
\* scored values) topics, and they are the first max_topics entries of the
\* full ranking (the ranking an unlimited max_topics gives).
C3_TopicCount ==
    \A i \in DOMAIN files :
        (Processed(i) /\ args.max_topics >= 0 /\ ErrorOf(i) = PyNone) =>
            LET recs == Records(i)
                topics == Topics(i)
                distinct == Cardinality(ScoredValues(recs))
                full == StoredTopics(recs, Len(recs) + 1)
            IN  /\ Len(topics) = Min(args.max_topics, distinct)
                /\ Len(topics) <= args.max_topics
                /\ args.max_topics = 0 => topics = <<>>
                /\ Len(full) = distinct
                /\ topics = SubSeq(full, 1, Min(args.max_topics, distinct))

\* the limit cuts the ranking: two distinct scored values, one topic kept
C3_Witness ==
    /\ Processed(1)
    /\ args.max_topics = 1
    /\ Cardinality(ScoredValues(Records(1))) = 2
    /\ Len(Topics(1)) = 1

\* the scored-category tags of file i whose score attribute is taken by the
\* pattern and is not numeric
MalformedScores(i) ==
    LET fields == MetaFields(Fetched(i).xml)
    IN  {k \in DOMAIN fields : ScoreRaises(fields[k].score)}

\* the records of file i with a non-numeric score read as an absent one
RECURSIVE LenientRecords(_)
LenientRecords(fields) ==
    IF fields = <<>> THEN <<>>
    ELSE LET f == Head(fields)
             rest == LenientRecords(Tail(fields))
         IN  IF f.name # GenericUpward THEN rest
             ELSE <<[value |-> f.value, id |-> f.id,
                     score |-> IF f.score \in NumericStrings THEN FloatOf(f.score)
                               ELSE NoScore]>> \o rest

\* C5: a response text with a non-numeric score attribute does not make
\* extraction raise: the item's outcome has error = null and ranks the
\* remaining records.
C5_MalformedScoreIsNull ==
    \A i \in DOMAIN files :
        (Processed(i) /\ "raw_response" \in Fetched(i).keys /\ MalformedScores(i) # {}) =>
            /\ ErrorOf(i) = PyNone
            /\ Topics(i) = StoredTopics(LenientRecords(MetaFields(Fetched(i).xml)),
                                        args.max_topics)

\* ------------------------------------------------------- the batch claims
Outcomes == IF args.json \/ args.csv THEN results ELSE printed

BothStrategiesFail(i) == files[i].upload.exc # "" /\ files[i].text.exc # ""

\* parsing the response of file i raises (extraction or the category lookup)
ParsingRaises(i) ==
    /\ ~BothStrategiesFail(i)
    /\ "error" \notin Fetched(i).keys
    /\ LET parsed == ParseClassificationResults(Fetched(i))
       IN  parsed.exc # "" \/ GenericUpwardItems(parsed.val).exc # ""

Failing(i) == BothStrategiesFail(i) \/ ParsingRaises(i)

\* the topics shown for file i are the ranking `expected` (the
\* human-readable mode shows the scores only with --include-scoring)
ShowsRanking(i, expected) ==
    /\ Len(Topics(i)) = Len(expected)
    /\ \A a \in DOMAIN expected :
          /\ Topics(i)[a].topic = expected[a].topic
          /\ \/ Topics(i)[a].score = expected[a].score
             \/ ~args.json /\ ~args.csv /\ ~args.include_scoring
                /\ Topics(i)[a].score = NoScore

\* C4: the loop handles every file and leaves exactly one outcome per file,
\* in submission order; a failing file (both strategies fail, or parsing
\* raises) has a non-null error and no topics, and every other file has the
\* outcome its own response gives, whatever happened to the other files.
C4_ErrorIsolation ==
    /\ Len(Outcomes) = idx - 1
    /\ pc # "loop" => Len(Outcomes) = Len(files)
    /\ \A i \in DOMAIN Outcomes :
          /\ Outcomes[i].file = files[i].name
          /\ Failing(i) => ErrorOf(i) # PyNone /\ Topics(i) = <<>>
          /\ (~Failing(i) /\ "error" \notin Fetched(i).keys) =>
                /\ ErrorOf(i) = PyNone
                /\ ShowsRanking(i, StoredTopics(Records(i), args.max_topics))
          /\ (~Failing(i) /\ "error" \in Fetched(i).keys) =>
                ErrorOf(i) = Fetched(i).err /\ Topics(i) = <<>>

\* a batch of three whose second file fails in both strategies, between two
\* files that are ranked
C4_Witness ==
    /\ pc = "done"
    /\ Len(results) = 3
    /\ BothStrategiesFail(2) /\ ~Failing(1) /\ ~Failing(3)
    /\ results[1].classifications # <<>> /\ results[3].classifications # <<>>
    /\ results[2].error # PyNone

\* C6: no outcome the loop accumulates holds topics together with an error.
C6_ErrorOrTopics ==
    /\ \A i \in DOMAIN results :
          results[i].error = PyNone \/ results[i].classifications = <<>>
    /\ file_result.error = PyNone \/ file_result.classifications = <<>>

\* a ranked file, then a file whose parsing raised, then one no strategy
\* could fetch
C6_Witness ==
    /\ Len(results) = 3
    /\ results[1].classifications # <<>>
    /\ ParsingRaises(2) /\ results[2].error # PyNone
    /\ BothStrategiesFail(3) /\ results[3].error # PyNone

SetMax(S) == CHOOSE m \in S : \A n \in S : n <= m

\* C7: the CSV header and every row have 2 + maxTopics cells, maxTopics
\* being the largest topic count of the outcomes without an error (0 if
\* none); a row holds its topics and then empty cells, an errored row the
\* error text and empty topic cells only.
C7_CsvWidth ==
    (pc \in {"raw", "done"} /\ ~args.json /\ args.csv) =>
        LET maxTopics == SetMax({0} \cup {Len(results[i].classifications) :
                                    i \in {j \in DOMAIN results : results[j].error = PyNone}})
        IN  /\ Len(csv_file) = 1 + Len(results)
            /\ \A r \in DOMAIN csv_file : Len(csv_file[r]) = 2 + maxTopics
            /\ \A i \in DOMAIN results :
                  LET row == csv_file[i + 1]
                      n == Len(results[i].classifications)
                  IN  /\ row[1] = results[i].filename
                      /\ results[i].error = PyNone =>
                            /\ row[2] = ""
                            /\ \A c \in 1..maxTopics :
                                  row[2 + c] = IF c <= n
                                               THEN results[i].classifications[c].topic
                                               ELSE ""
                      /\ results[i].error # PyNone =>
                            /\ row[2] = results[i].error
                            /\ \A c \in 1..maxTopics : row[2 + c] = ""

\* a CSV of three files: two topics, one topic (padded) and an error
C7_Witness ==
    /\ pc = "raw" /\ ~args.json /\ args.csv
    /\ Len(results) = 3
    /\ Len(results[1].classifications) = 2
    /\ Len(results[2].classifications) = 1 /\ results[2].error = PyNone
    /\ results[3].error # PyNone
    /\ Len(csv_file) = 4

FailureMessages ==
    {FailedToProcess(e) : e \in {"415 Client Error", "503 Server Error", "No such file"}}
IsFailureOutcome(r) == r.keys = {"error"} /\ r.err \in FailureMessages

TextTried(i) == \E c \in DOMAIN calls[i] : calls[i][c] \in {"open", "classify_text"}

\* C10: the helper's classify_file uploads the file first and turns to the
\* text submission if and only if the upload raised; it returns the payload
\* of the first strategy that succeeded, and its {error: ...} outcome exactly
\* when both failed, with the reason of the text strategy.
C10_FallbackOrder ==
    /\ \A i \in DOMAIN calls :
          /\ calls[i][1] = "classify_file"
          /\ TextTried(i) <=> files[i].upload.exc # ""
          /\ \A c \in DOMAIN calls[i] : c > 1 => calls[i][c] # "classify_file"
    /\ idx > 1 =>
          LET f == files[idx - 1]
          IN  /\ f.upload.exc = "" => last_result = f.upload.val
              /\ (f.upload.exc # "" /\ f.text.exc = "") => last_result = f.text.val
              /\ IsFailureOutcome(last_result) <=> BothStrategiesFail(idx - 1)
              /\ BothStrategiesFail(idx - 1) =>
                    last_result.err = FailedToProcess(f.text.exc)

\* the upload raised one error and the text submission another one, which
\* is the one returned
C10_Witness ==
    /\ idx > 1
    /\ files[idx - 1].upload.exc = "415 Client Error"
    /\ files[idx - 1].text.exc = "503 Server Error"
    /\ calls[idx - 1] = <<"classify_file", "open", "classify_text">>
    /\ last_result.err = "Failed to process: 503 Server Error"

\* ------------------------------------------- a caller of the client methods
\* What classify_text and classify_file return: the decoded JSON body, or
\* {"raw_response": text} when the body is not JSON.
Responses == {RawResponse(xml) : xml \in SeqsUpTo(TagAlphabet, MaxTags)} \cup BatchJson

InitClient ==
    /\ files = <<>>
    /\ args = [json |-> FALSE, csv |-> FALSE, raw_json |-> FALSE,
               include_scoring |-> FALSE, max_topics |-> 10]
    /\ InitMain
    /\ response \in Responses
    /\ max_results \in -1..MaxTopics
    /\ parses = <<>>
    /\ tops = <<>>
    /\ access_token = PyNone
    /\ client_log = <<>>

\* parse_classification_results(response)
Parse ==
    /\ parses = <<>>
    /\ parses' = <<ParseClassificationResults(response)>>
    /\ UNCHANGED <<response, max_results, tops, access_token, client_log>>
    /\ UNCHANGED mainVars

\* parse_classification_results applied to what the first call returned
ParseAgain ==
    /\ Len(parses) = 1
    /\ parses[1].exc = ""
    /\ parses' = Append(parses, ParseClassificationResults(parses[1].val))
    /\ UNCHANGED <<response, max_results, tops, access_token, client_log>>
    /\ UNCHANGED mainVars

\* get_top_classifications(response, max_results)
GetTop ==
    /\ tops = <<>>
    /\ tops' = <<GetTopClassifications(response, max_results)>>
    /\ UNCHANGED <<response, max_results, parses, access_token, client_log>>
    /\ UNCHANGED mainVars

NextClient == Parse \/ ParseAgain \/ GetTop

SpecClient == InitClient /\ [][NextClient]_vars

\* C8: parse_classification_results is idempotent: parsing what a parse
\* returned gives that result unchanged, and a payload without a
\* raw_response key is returned as it is.
C8_ParseIdempotent ==
    /\ Len(parses) = 2 => parses[2] = parses[1]
    /\ (Len(parses) >= 1 /\ "raw_response" \notin response.keys) =>
          parses[1] = Returned(response)

\* a response text with classifications and system fields, parsed twice
C8_Witness ==
    /\ Len(parses) = 2
    /\ "raw_response" \in response.keys
    /\ parses[1].val.cls # <<>>
    /\ parses[1].val.sys # <<>>
    /\ "raw_response" \notin parses[1].val.keys

\* C9: for every payload classify_text or classify_file can return,
\* get_top_classifications returns (never raises) a list of at most
\* max_results records, by non-increasing score, none with a null score.
\* Stated for the payloads whose extraction itself does not raise, so that
\* what is examined is the handling of the two kinds of payload.
C9_GetTopNeverRaises ==
    (tops # <<>> /\ max_results >= 0 /\ ParseClassificationResults(response).exc = "") =>
        /\ tops[1].exc = ""
        /\ Len(tops[1].val) <= max_results
        /\ NonIncreasing(tops[1].val)
        /\ \A a \in DOMAIN tops[1].val : tops[1].val[a].score # NoScore

\* ------------------------------ authenticate, classify_text, classify_file
MaxCalls == 3     \* longest sequence of calls on one client

\* What the token endpoint answers: an HTTP error, or a JSON body whose
\* access_token is missing (None), empty or a token.
TokenResponses ==
    { [status |-> "error", token |-> PyNone],
      [status |-> "ok", token |-> PyNone],
      [status |-> "ok", token |-> ""],
      [status |-> "ok", token |-> "tokenA"],
      [status |-> "ok", token |-> "tokenB"] }

\* What the classification endpoint answers: an HTTP error, a JSON body or
\* a body that is not JSON.
ClassifyResponses ==
    { Raised("HTTPError", JsonList),
      Returned(JsonObject({}, <<>>, PyNone)),
      Returned(RawResponse(<<Scored("Law", "70")>>)) }

TokenRequest == [kind |-> "token", bearer |-> PyNone]
ClassifyRequest(token) == [kind |-> "classify", bearer |-> token]

\* a method's effect: the token it leaves, the requests it sent, whether
\* and how its authenticate step ended, and what it raised or returned
Effect(token, sent, auth, exc, val) ==
    [token |-> token, sent |-> sent, auth |-> auth, exc |-> exc, val |-> val]

\* SemaphoreClassificationClient.authenticate
AuthenticateCall(token, tr) ==
    IF tr.status = "error"
    THEN Effect(token, <<TokenRequest>>, "failed", "HTTPError", JsonList)
    ELSE IF ~Truthy(tr.token)
         THEN Effect(tr.token, <<TokenRequest>>, "failed", "ValueError", JsonList)
         ELSE Effect(tr.token, <<TokenRequest>>, "ok", "", JsonList)

\* A plausible slip: the test is `self.access_token is None`.
TokenIsNone(token) == token = PyNone

\* if not self.access_token
NoToken(token) == ~Truthy(token)

\* lines 76-77 and 118-119: authenticate when no token is held
EnsureToken(token, tr) ==
    IF NoToken(token) THEN AuthenticateCall(token, tr)
    ELSE Effect(token, <<>>, "none", "", JsonList)

\* the POST of lines 90-96 and 137-143
PostClassify(auth, cr) ==
    Effect(auth.token, auth.sent \o <<ClassifyRequest(auth.token)>>, auth.auth,
           cr.exc, cr.val)

\* SemaphoreClassificationClient.classify_text
ClassifyTextCall(token, tr, cr) ==
    LET auth == EnsureToken(token, tr)
    IN  IF auth.exc # "" THEN auth ELSE PostClassify(auth, cr)

\* SemaphoreClassificationClient.classify_file
ClassifyFileCall(token, tr, exists, cr) ==
    LET auth == EnsureToken(token, tr)
    IN  IF auth.exc # "" THEN auth
        ELSE IF ~exists
             THEN Effect(auth.token, auth.sent, auth.auth, "FileNotFoundError", JsonList)
             ELSE PostClassify(auth, cr)

LogEntry(call, effect) ==
    [call |-> call, had |-> access_token, sent |-> effect.sent, auth |-> effect.auth,
     exc |-> effect.exc, token |-> effect.token]

\* the caller sees the effect of one call
Called(call, effect) ==
    /\ Len(client_log) < MaxCalls
    /\ access_token' = effect.token
    /\ client_log' = Append(client_log, LogEntry(call, effect))
    /\ response' = IF call # "authenticate" /\ effect.exc = "" THEN effect.val
                   ELSE response
    /\ UNCHANGED <<max_results, parses, tops>>
    /\ UNCHANGED mainVars

Authenticate ==
    \E tr \in TokenResponses :
        Called("authenticate", AuthenticateCall(access_token, tr))

ClassifyText ==
    \E tr \in TokenResponses, cr \in ClassifyResponses :
        Called("classify_text", ClassifyTextCall(access_token, tr, cr))

ClassifyFileOnClient ==
    \E tr \in TokenResponses, exists \in BOOLEAN, cr \in ClassifyResponses :
        Called("classify_file", ClassifyFileCall(access_token, tr, exists, cr))

\* a client after __init__, and any sequence of calls on it
InitAuth ==
    /\ files = <<>>
    /\ args = [json |-> FALSE, csv |-> FALSE, raw_json |-> FALSE,
               include_scoring |-> FALSE, max_topics |-> 10]
    /\ InitMain
    /\ InitNoCaller

NextAuth == Authenticate \/ ClassifyText \/ ClassifyFileOnClient

SpecAuth == InitAuth /\ [][NextAuth]_vars

IsClassify(e) == e.call \in {"classify_text", "classify_file"}
Sends(e, kind) == \E r \in DOMAIN e.sent : e.sent[r].kind = kind

\* What C11 says of one call, the clause on re-authentication apart:
\* classification requests carry a non-empty token; a classify call made
\* without a token authenticates first; when that authenticate fails the
\* call raises, sends no classification request and leaves no usable
\* token; a usable token is only ever set by an authenticate that succeeded.
TokenDiscipline(e) ==
    /\ \A r \in DOMAIN e.sent : e.sent[r].kind = "classify" => Truthy(e.sent[r].bearer)
    /\ (IsClassify(e) /\ ~Truthy(e.had)) =>
          e.sent # <<>> /\ e.sent[1].kind = "token"
    /\ (IsClassify(e) /\ e.auth = "failed") =>
          e.exc # "" /\ ~Sends(e, "classify") /\ ~Truthy(e.token)
    /\ (Truthy(e.token) /\ e.token # e.had) => e.auth = "ok"

\* C11 as stated: the token discipline holds, and once a token is held
\* (after any earlier call) classify calls never re-authenticate.
C11_NeverReauthenticatesOnceHeld ==
    \A k \in DOMAIN client_log :
        /\ TokenDiscipline(client_log[k])
        /\ (IsClassify(client_log[k])
            /\ \E j \in 1..(k - 1) : Truthy(client_log[j].token)) =>
              ~Sends(client_log[k], "token")

\* C11 amended: the token discipline holds, and a classify call made while
\* a token is held never re-authenticates; a held token is lost when an
\* explicit authenticate gets a token response without access_token, and
\* the next classify call then authenticates again.
C11_AuthenticatesOnlyWithoutToken ==
    \A k \in DOMAIN client_log :
        /\ TokenDiscipline(client_log[k])
        /\ IsClassify(client_log[k]) =>
              (Sends(client_log[k], "token") <=> ~Truthy(client_log[k].had))
        /\ (client_log[k].call = "authenticate" /\ client_log[k].auth = "failed"
            /\ client_log[k].exc = "ValueError") => ~Truthy(client_log[k].token)

\* a classify call whose authenticate failed, one that authenticated and
\* sent its request, and one that used the held token
C11_Witness ==
    /\ Len(client_log) = 3
    /\ IsClassify(client_log[1]) /\ client_log[1].auth = "failed"
    /\ IsClassify(client_log[2]) /\ client_log[2].auth = "ok"
    /\ Len(client_log[2].sent) = 2
    /\ IsClassify(client_log[3]) /\ client_log[3].auth = "none"
    /\ client_log[3].sent = <<ClassifyRequest(access_token)>>

\* C12: with --raw-json, raw_results holds exactly one entry per processed
\* file, in submission order, whether the file was ranked, came back from
\* classify_file as an error outcome, or raised during parsing.
C12_OneRawEntryPerFile ==
    args.raw_json =>
        /\ Len(raw_results) = idx - 1
        /\ pc # "loop" => Len(raw_results) = Len(files)
        /\ \A i \in DOMAIN raw_results :
              i <= Len(files) => raw_results[i].file = files[i].name
====
